---- MODULE Spec2Model ----
\* One process invocation of devops_agent.py: main() parses the arguments,
\* DevOpsAIAgent() loads (or creates) the configuration, execute_command()
\* runs the chosen command.  Standard input and the remote API are the
\* environment: every read and every HTTP exchange is a nondeterministic
\* choice.
\*
\* A Python str is a sequence of text chunks.  Characters the code looks at
\* one by one (digits, white space) are chunks of their own; any other run
\* of text is a single opaque chunk.
EXTENDS Integers, Sequences, FiniteSets, TLC

VARIABLES pc, args, fs, pathKind, config, caller, local_config, models,
          lines, subject, printed,
          fs0, last, raw_lines,
          net, validated, listed, reads, writes, wizardRuns, keyIters, chat

vars == <<pc, args, fs, pathKind, config, caller, local_config, models,
          lines, subject, printed,
          fs0, last, raw_lines,
          net, validated, listed, reads, writes, wizardRuns, keyIters, chat>>

\* ---------------------------------------------------------------- bounds

\* Lines the process may read from standard input in one run.
MaxReads == 4
\* Entries in the data array of a models-listing response.
MaxData == 2

\* ------------------------------------------------------- Python built-ins

None == [given |-> FALSE]
Some(v) == [given |-> TRUE, val |-> v]
\* Truth value of an optional string argument: None and "" are falsy.
Truthy(opt) == opt.given /\ opt.val # <<>>

Return(v) == [kind |-> "return", val |-> v]
Raise(e, t) == [kind |-> "raise", exc |-> e, text |-> t]

AsciiDigits == {"0", "1", "2", "3", "9"}
\* "sup2" stands for U+00B2, a digit to str.isdigit() that int() rejects.
OtherDigits == {"sup2"}
Whitespace == {" ", "\n"}

RECURSIVE lstrip(_)
lstrip(s) == IF s # <<>> /\ Head(s) \in Whitespace THEN lstrip(Tail(s)) ELSE s

RECURSIVE rstrip(_)
rstrip(s) ==
    IF s # <<>> /\ s[Len(s)] \in Whitespace
    THEN rstrip(SubSeq(s, 1, Len(s) - 1))
    ELSE s

strip(s) == rstrip(lstrip(s))

isdigit(s) == s # <<>> /\ \A i \in 1..Len(s) : s[i] \in AsciiDigits \cup OtherDigits

DigitVal(c) ==
    CASE c = "0" -> 0 [] c = "1" -> 1 [] c = "2" -> 2 [] c = "3" -> 3 [] c = "9" -> 9

RECURSIVE Decimal(_)
Decimal(s) == IF s = <<>> THEN 0 ELSE 10 * Decimal(SubSeq(s, 1, Len(s) - 1)) + DigitVal(s[Len(s)])

\* int(s) for a string that passed isdigit().
int(s) ==
    IF \E i \in 1..Len(s) : s[i] \notin AsciiDigits
    THEN Raise("ValueError", <<"invalid literal for int()">>)
    ELSE Return(Decimal(s))

\* seq[i] with Python's zero-based index.
PyIndex(seq, i) == seq[i + 1]

\* '\n'.join(ls)
RECURSIVE join(_)
join(ls) ==
    IF ls = <<>> THEN <<>>
    ELSE IF Len(ls) = 1 THEN ls[1]
    ELSE ls[1] \o <<"\n">> \o join(Tail(ls))

\* d.get(k, default)
get(d, k, default) == IF k \in DOMAIN d THEN d[k] ELSE default

\* ------------------------------------------------------------ environment

Http(status, body) == [kind |-> "http", status |-> status, body |-> body]
Exc(text) == [kind |-> "exc", text |-> text]
\* A response body: text that is not JSON, or a parsed JSON document.
NotJson == [json |-> FALSE]
Json(doc) == [json |-> TRUE, doc |-> doc]

EmptyDict == <<>>

ExcTexts == {<<"Read timed out">>, <<"Connection reset by peer">>}

\* Answers of GET /auth/key.
ValidateResps ==
    {Http(200, NotJson), Http(401, NotJson), Http(429, NotJson)}
        \cup {Exc(t) : t \in ExcTexts}

\* Entries of the data array of GET /models.
DataEntries ==
    {[id |-> <<"m1">>], [id |-> <<"m2">>], [id |-> <<>>], [name |-> <<"no id">>]}
DataArrays == UNION {[1..n -> DataEntries] : n \in 0..MaxData}

\* Answers of GET /models.
ModelsResps ==
    {Http(200, Json([data |-> d])) : d \in DataArrays}
        \cup {Http(200, Json(EmptyDict)), Http(200, NotJson), Http(503, NotJson)}
        \cup {Exc(t) : t \in ExcTexts}

Contents == {<<"## Cause", "\n", "...">>, <<>>}
\* Documents without choices[0].message.content.
LackingDocs ==
    { EmptyDict,
      [choices |-> <<>>],
      [choices |-> <<[index |-> 0]>>],
      [choices |-> <<[message |-> [role |-> "assistant"]]>>] }
WellFormed(c) == [choices |-> <<[message |-> [role |-> "assistant", content |-> c]]>>]

\* Answers of POST /chat/completions.
ChatResps ==
    {Http(200, Json(WellFormed(c))) : c \in Contents}
        \cup {Http(200, Json(d)) : d \in LackingDocs}
        \cup {Http(200, NotJson), Http(429, NotJson), Http(500, NotJson)}
        \cup {Exc(t) : t \in ExcTexts}

\* What sys.stdin.readline() may return: "" at end of input, else a line
\* with its newline.  Each prompt is tried with the lines that matter to it.
KeyLines == {<<>>, <<"sk-or-1", "\n">>, <<" ", "sk-or-2", " ", "\n">>}
ChoiceLines ==
    { <<>>,
      <<"2", "\n">>,
      <<"0", "\n">>,
      <<" ", "0", "1", "\n">>,
      <<"9", "9", "\n">>,
      <<"sup2", "\n">>,
      <<"amazon/foo", "\n">> }
TextLines ==
    { <<>>,
      <<" ", "at line 5", "\n">>,
      <<"DONE", "\n">>,
      <<" ", "DONE", " ", "\n">> }
ToolLines == {<<>>, <<" ", "nginx", "\n">>}

\* ------------------------------------------------------------- API calls

\* response.json()
json_of(resp) ==
    IF resp.body.json THEN Return(resp.body.doc)
    ELSE Raise("JSONDecodeError", <<"Expecting value: line 1 column 1 (char 0)">>)

Request(endpoint, auth, payload) ==
    [endpoint |-> endpoint, auth |-> auth, payload |-> payload]

\* The result of an API-calling method: what it returns or raises, and the
\* HTTP requests it sent.
Result(out, sent) == [out |-> out, sent |-> sent]

\* validate_openrouter_api_key without its except clause.
validate_without_except(api_key, resp) ==
    IF api_key = <<>>
    THEN Result(Return(FALSE), <<>>)
    ELSE LET req == Request("auth/key", api_key, EmptyDict) IN
         IF resp.kind = "exc"
         THEN Result(Raise("RequestException", resp.text), <<req>>)
         ELSE Result(Return(resp.status = 200), <<req>>)

validate_openrouter_api_key(api_key, resp) ==
    IF api_key = <<>>
    THEN Result(Return(FALSE), <<>>)
    ELSE LET req == Request("auth/key", api_key, EmptyDict) IN
         IF resp.kind = "exc"
         THEN Result(Return(FALSE), <<req>>)
         ELSE Result(Return(resp.status = 200), <<req>>)

FALLBACK_EMPTY ==
    << <<"anthropic/claude-3-opus">>, <<"anthropic/claude-3-sonnet">>,
       <<"anthropic/claude-3-haiku">>, <<"google/gemini-pro">>,
       <<"google/gemini-1.5-pro">>, <<"openai/gpt-4o">>,
       <<"openai/gpt-4-turbo">>, <<"openai/gpt-3.5-turbo">>,
       <<"meta/llama-3-70b-instruct">>, <<"mistralai/mixtral-8x7b">>,
       <<"mistralai/mistral-7b-instruct">> >>

FALLBACK_STATUS ==
    << <<"anthropic/claude-3-opus">>, <<"anthropic/claude-3-sonnet">>,
       <<"anthropic/claude-3-haiku">>, <<"google/gemini-pro">>,
       <<"google/gemini-1.5-pro">>, <<"openai/gpt-4o">>,
       <<"openai/gpt-4-turbo">>, <<"openai/gpt-3.5-turbo">>,
       <<"meta/llama-3-70b-instruct">>, <<"mistralai/mixtral-8x7b">>,
       <<"mistralai/mistral-7b-instruct">> >>

FALLBACK_EXCEPTION ==
    << <<"anthropic/claude-3-opus">>, <<"anthropic/claude-3-sonnet">>,
       <<"anthropic/claude-3-haiku">>, <<"google/gemini-pro">>,
       <<"google/gemini-1.5-pro">>, <<"openai/gpt-4o">>,
       <<"openai/gpt-4-turbo">>, <<"openai/gpt-3.5-turbo">>,
       <<"meta/llama-3-70b-instruct">>, <<"mistralai/mixtral-8x7b">>,
       <<"mistralai/mistral-7b-instruct">> >>

\* The loop over models_data.get('data', []): the truthy ids, in order.
RECURSIVE available_models(_)
available_models(data) ==
    IF data = <<>> THEN <<>>
    ELSE LET model == Head(data) IN
         IF "id" \in DOMAIN model /\ model.id # <<>>
         THEN <<model.id>> \o available_models(Tail(data))
         ELSE available_models(Tail(data))

\* get_available_models without the test for an empty list.
get_available_models_unchecked(api_key, resp) ==
    LET req == Request("models", api_key, EmptyDict) IN
    IF resp.kind = "exc"
    THEN Result(Return(FALLBACK_EXCEPTION), <<req>>)
    ELSE IF resp.status = 200
    THEN LET models_data == json_of(resp) IN
         IF models_data.kind = "raise"
         THEN Result(Return(FALLBACK_EXCEPTION), <<req>>)
         ELSE Result(Return(available_models(get(models_data.val, "data", <<>>))), <<req>>)
    ELSE Result(Return(FALLBACK_STATUS), <<req>>)

get_available_models(api_key, resp) ==
    LET req == Request("models", api_key, EmptyDict) IN
    IF resp.kind = "exc"
    THEN Result(Return(FALLBACK_EXCEPTION), <<req>>)
    ELSE IF resp.status = 200
    THEN LET models_data == json_of(resp) IN
         IF models_data.kind = "raise"
         THEN Result(Return(FALLBACK_EXCEPTION), <<req>>)
         ELSE LET found == available_models(get(models_data.val, "data", <<>>)) IN
              IF found = <<>>
              THEN Result(Return(FALLBACK_EMPTY), <<req>>)
              ELSE Result(Return(found), <<req>>)
    ELSE Result(Return(FALLBACK_STATUS), <<req>>)

\* result['choices'][0]['message']['content']
first_choice_content(result) ==
    IF "choices" \notin DOMAIN result
    THEN Raise("KeyError", <<"'choices'">>)
    ELSE IF Len(result.choices) = 0
    THEN Raise("IndexError", <<"list index out of range">>)
    ELSE LET choice == PyIndex(result.choices, 0) IN
         IF "message" \notin DOMAIN choice
         THEN Raise("KeyError", <<"'message'">>)
         ELSE IF "content" \notin DOMAIN choice.message
         THEN Raise("KeyError", <<"'content'">>)
         ELSE Return(choice.message.content)

\* self.config[key]
config_item(cfg, key) ==
    IF key \in DOMAIN cfg THEN Return(cfg[key])
    ELSE Raise("KeyError", <<"'" \o key \o "'">>)

analyze_prompt(error_text) ==
    <<"You are a DevOps AI assistant. Analyze this error and provide a solution:", "\n">>
        \o error_text
        \o <<"\n", "Please explain: 1. What is causing this error 2. How to fix it 3. Any preventive measures for the future. Format your response in markdown with clear steps.">>

install_prompt(tool_name) ==
    <<"You are a DevOps AI assistant. Provide detailed installation instructions for ">>
        \o tool_name
        \o <<".", "\n", "Include: 1. Prerequisites 2. Step-by-step installation process 3. Basic configuration 4. How to verify the installation 5. Common issues and troubleshooting. Format your response in markdown with clear steps that can be executed in a terminal.">>

\* The try block shared in shape by analyze_error and install_tool: what
\* it evaluates to before the except clause is applied.
chat_try(cfg, prompt, resp) ==
    LET api_key == config_item(cfg, "api_key")
        model == config_item(cfg, "model")
    IN  IF api_key.kind = "raise" THEN Result(api_key, <<>>)
        ELSE IF model.kind = "raise" THEN Result(model, <<>>)
        ELSE LET data == [model |-> model.val,
                          messages |-> <<[role |-> "user", content |-> prompt]>>]
                 req == Request("chat/completions", api_key.val, data)
             IN  IF resp.kind = "exc"
                 THEN Result(Raise("RequestException", resp.text), <<req>>)
                 ELSE IF resp.status = 200
                 THEN LET result == json_of(resp) IN
                      IF result.kind = "raise" THEN Result(result, <<req>>)
                      ELSE Result(first_choice_content(result.val), <<req>>)
                 ELSE Result([kind |-> "status", status |-> resp.status], <<req>>)

\* analyze_error with an except clause that catches request errors only.
analyze_error_narrow_except(cfg, error_text, resp) ==
    LET t == chat_try(cfg, analyze_prompt(error_text), resp) IN
    IF t.out.kind = "return" THEN t
    ELSE IF t.out.kind = "status"
    THEN Result(Return(<<"Error:", " Could not analyze the error. API responded with ",
                         ToString(t.out.status), ".">>), t.sent)
    ELSE IF t.out.exc = "RequestException"
    THEN Result(Return(<<"Error:", " Could not analyze the error due to an API issue: ">>
                         \o t.out.text), t.sent)
    ELSE t

analyze_error(cfg, error_text, resp) ==
    LET t == chat_try(cfg, analyze_prompt(error_text), resp) IN
    IF t.out.kind = "return" THEN t
    ELSE IF t.out.kind = "status"
    THEN Result(Return(<<"Error:", " Could not analyze the error. API responded with ",
                         ToString(t.out.status), ".">>), t.sent)
    ELSE Result(Return(<<"Error:", " Could not analyze the error due to an API issue: ">>
                         \o t.out.text), t.sent)

\* install_tool sending the request again after a non-200 answer.
install_tool_retry(cfg, tool_name, resp) ==
    LET t == chat_try(cfg, install_prompt(tool_name), resp) IN
    IF t.out.kind = "return" THEN t
    ELSE IF t.out.kind = "status"
    THEN Result(Return(<<"Error:", " Could not get installation instructions. API responded with ",
                         ToString(t.out.status), ".">>), t.sent \o t.sent)
    ELSE Result(Return(<<"Error:", " Could not get installation instructions due to an API issue: ">>
                         \o t.out.text), t.sent)

install_tool(cfg, tool_name, resp) ==
    LET t == chat_try(cfg, install_prompt(tool_name), resp) IN
    IF t.out.kind = "return" THEN t
    ELSE IF t.out.kind = "status"
    THEN Result(Return(<<"Error:", " Could not get installation instructions. API responded with ",
                         ToString(t.out.status), ".">>), t.sent)
    ELSE Result(Return(<<"Error:", " Could not get installation instructions due to an API issue: ">>
                         \o t.out.text), t.sent)

\* --------------------------------------------------- configuration values

\* cfg[key] = value
Put(cfg, key, value) == (key :> value) @@ cfg

\* The error_monitoring block first_time_setup attaches.
wizard_error_monitoring ==
    [enabled |-> TRUE, scan_interval |-> 300,
     log_patterns |-> <<"error:", "exception", "failure", "fatal", "critical">>]

\* The error_monitoring block the setup command attaches.
command_error_monitoring ==
    [enabled |-> TRUE, scan_interval |-> 300,
     log_patterns |-> <<"error:", "exception", "failure", "fatal", "critical">>]

\* The wizard's selection with the range test 1 <= choice < len(models).
wizard_choice_exclusive(choice_input, ms) ==
    IF isdigit(choice_input)
    THEN LET choice == int(choice_input) IN
         IF choice.kind = "raise" THEN [kind |-> "again"]
         ELSE IF 1 <= choice.val /\ choice.val < Len(ms)
         THEN [kind |-> "break", model |-> PyIndex(ms, choice.val - 1)]
         ELSE [kind |-> "again"]
    ELSE [kind |-> "break", model |-> choice_input]

\* One pass of the body of first_time_setup's model-selection loop.
wizard_choice(choice_input, ms) ==
    IF isdigit(choice_input)
    THEN LET choice == int(choice_input) IN
         IF choice.kind = "raise" THEN [kind |-> "again"]
         ELSE IF 1 <= choice.val /\ choice.val <= Len(ms)
         THEN [kind |-> "break", model |-> PyIndex(ms, choice.val - 1)]
         ELSE [kind |-> "again"]
    ELSE [kind |-> "break", model |-> choice_input]

\* One pass of the body of the setup command's model-selection loop.
command_choice(choice_input, ms) ==
    IF isdigit(choice_input)
    THEN LET choice == int(choice_input) IN
         IF choice.kind = "raise" THEN [kind |-> "again"]
         ELSE IF 1 <= choice.val /\ choice.val <= Len(ms)
         THEN [kind |-> "break", model |-> PyIndex(ms, choice.val - 1)]
         ELSE [kind |-> "again"]
    ELSE [kind |-> "break", model |-> choice_input]

\* What start_monitoring writes to the terminal.
start_monitoring(cfg) ==
    LET monitoring_config == get(cfg, "error_monitoring", EmptyDict) IN
    IF ~get(monitoring_config, "enabled", FALSE)
    THEN << <<"Error monitoring is disabled in configuration.">> >>
    ELSE << <<"Monitoring active with scan interval: ",
              ToString(get(monitoring_config, "scan_interval", 300)), "s">>,
            <<"Error monitoring is now active in the background.">> >>

\* The source selection with --text tested before --file.
analyze_source_text_first(a, kind) ==
    IF Truthy(a.text) THEN "text"
    ELSE IF Truthy(a.file) /\ kind # "absent" THEN "file"
    ELSE "stdin"

\* Which source the analyze command takes the error text from.
analyze_source(a, kind) ==
    IF Truthy(a.file) /\ kind # "absent" THEN "file"
    ELSE IF Truthy(a.text) THEN "text"
    ELSE "stdin"

\* The last operation that read standard input or called the API: the line
\* read, the argument passed, the response received and the outcome.
Call(op, line, arg, resp, result) ==
    [op |-> op, line |-> line, arg |-> arg,
     resp |-> IF result.sent = <<>> THEN None ELSE resp,
     out |-> result.out, sent |-> Len(result.sent)]
NoCall == Call("none", None, <<>>, None, Result(Return(<<>>), <<>>))

Endpoints(sent) == [i \in 1..Len(sent) |-> sent[i].endpoint]

\* ------------------------------------------------------------ initial state

\* Content of the file --file names, when it is a regular file.
FileContent == <<"Traceback (most recent call last):", "\n", " ", "KeyError: 'x'", "\n">>

NoArgs ==
    [command |-> "none", file |-> None, text |-> None, tool |-> None,
     api_key |-> None, model |-> None]

ArgSets ==
    {NoArgs, [NoArgs EXCEPT !.command = "monitor"]}
        \cup {[NoArgs EXCEPT !.command = "analyze", !.file = f, !.text = t] :
                f \in {None, Some(<<"err.log">>)},
                t \in {None, Some(<<>>), Some(<<"NullPointerException at line 5">>)}}
        \cup {[NoArgs EXCEPT !.command = "install", !.tool = t] :
                t \in {None, Some(<<>>), Some(<<"docker">>)}}
        \cup {[NoArgs EXCEPT !.command = "setup", !.api_key = k, !.model = m] :
                k \in {None, Some(<<>>), Some(<<"sk-arg">>)},
                m \in {None, Some(<<"vendor/arg-model">>)}}

\* JSON objects a config file may hold before the run.
StoredConfigs ==
    { [api_key |-> <<"sk-old">>, model |-> <<"m-old">>,
       error_monitoring |-> wizard_error_monitoring],
      [api_key |-> <<"sk-old">>, model |-> <<"m-old">>,
       error_monitoring |-> [enabled |-> FALSE]],
      [api_key |-> <<"sk-old">>, model |-> <<"m-old">>],
      [api_key |-> <<>>, model |-> <<"m-old">>],
      [api_key |-> <<"sk-old">>],
      EmptyDict }

FileStates ==
    {[kind |-> "missing"], [kind |-> "corrupt"]}
        \cup {[kind |-> "json", obj |-> o] : o \in StoredConfigs}

Init ==
    /\ pc = "main"
    /\ args \in ArgSets
    /\ fs \in FileStates
    /\ pathKind \in {"absent", "regular", "dir"}
    /\ (~Truthy(args.file) => pathKind = "absent")
    /\ config = None
    /\ caller = "none"
    /\ local_config = EmptyDict
    /\ models = <<>>
    /\ lines = <<>>
    /\ subject = None
    /\ printed = <<>>
    /\ fs0 = fs
    /\ last = NoCall
    /\ raw_lines = <<>>
    /\ net = <<>>
    /\ validated = {}
    /\ listed = {}
    /\ reads = 0
    /\ writes = 0
    /\ wizardRuns = 0
    /\ keyIters = 0
    /\ chat = <<>>

\* ------------------------------------------------------------------ main

\* main(): without a subcommand print the help and return; otherwise
\* construct the agent, whose constructor calls load_config.
main ==
    /\ pc = "main"
    /\ pc' = IF args.command = "none" THEN "exit" ELSE "load_config"
    /\ printed' = IF args.command = "none" THEN <<<<"usage: devops_agent.py">>>> ELSE printed
    /\ UNCHANGED <<args, fs, pathKind, config, caller, local_config, models, lines,
                   subject, last, fs0, raw_lines, net, validated, listed, reads, writes,
                   wizardRuns, keyIters, chat>>

\* load_config running the setup whatever the file holds.
load_config_branch_always_setup(file) == "first_time_setup"

\* What load_config does with the config file: return the parsed object,
\* or run first_time_setup.
load_config_branch(file) ==
    IF file.kind = "missing" THEN "first_time_setup"
    ELSE IF file.kind = "json" THEN "return"
    ELSE "first_time_setup"

load_config ==
    /\ pc = "load_config"
    /\ IF load_config_branch(fs) = "return"
       THEN /\ config' = Some(fs.obj)
            /\ pc' = "execute_command"
            /\ UNCHANGED <<caller, wizardRuns, local_config>>
       ELSE /\ caller' = "load_config"
            /\ wizardRuns' = wizardRuns + 1
            /\ local_config' = EmptyDict
            /\ pc' = "setup_key"
            /\ UNCHANGED config
    /\ UNCHANGED <<args, fs, pathKind, models, lines, subject, printed, last, fs0, raw_lines,
                   net, validated, listed, reads, writes, keyIters, chat>>

\* --------------------------------------------------------- first_time_setup

\* The API-key loop ending after the first pass, valid key or not.
key_accepted_always(v) == TRUE

\* The test that ends the API-key loop: the validator returned true.
key_accepted(v) == v.out.kind = "return" /\ v.out.val

\* One pass of the API-key loop: read a line, validate it, accept or repeat.
\* An exception inside the pass is caught by the loop, which repeats.
first_time_setup_key ==
    /\ pc = "setup_key"
    /\ reads < MaxReads
    /\ \E line \in KeyLines, resp \in ValidateResps :
         LET api_key == strip(line)
             v == validate_openrouter_api_key(api_key, resp)
         IN  /\ last' = Call("validate_openrouter_api_key", Some(line), api_key, Some(resp), v)
             /\ net' = net \o Endpoints(v.sent)
             /\ validated' = IF v.out = Return(TRUE)
                             THEN validated \cup {api_key} ELSE validated
             /\ IF key_accepted(v)
                THEN /\ local_config' = Put(local_config, "api_key", api_key)
                     /\ pc' = "setup_models"
                ELSE UNCHANGED <<local_config, pc>>
    /\ reads' = reads + 1
    /\ keyIters' = keyIters + 1
    /\ UNCHANGED <<fs0, raw_lines, args, fs, pathKind, config, caller, models, lines, subject,
                   printed, listed, writes, wizardRuns, chat>>

\* Fetch and print the model list.
first_time_setup_models ==
    /\ pc = "setup_models"
    /\ \E resp \in ModelsResps :
         LET r == get_available_models(local_config.api_key, resp) IN
             /\ last' = Call("get_available_models", None, local_config.api_key, Some(resp), r)
             /\ net' = net \o Endpoints(r.sent)
             /\ listed' = listed \cup {[key |-> local_config.api_key, by |-> "first_time_setup"]}
             /\ IF r.out.kind = "return"
                THEN models' = r.out.val /\ pc' = "setup_choice"
                ELSE models' = models /\ pc' = "crashed"
    /\ UNCHANGED <<args, fs, pathKind, config, caller, local_config, lines, subject,
                   printed, fs0, raw_lines, validated, reads, writes, wizardRuns,
                   keyIters, chat>>

\* One pass of the model-selection loop.
first_time_setup_choice ==
    /\ pc = "setup_choice"
    /\ reads < MaxReads
    /\ \E line \in ChoiceLines :
         LET c == wizard_choice(strip(line), models) IN
             /\ last' = Call("choice", Some(line), strip(line), None, Result(c, <<>>))
             /\ IF c.kind = "break"
                THEN /\ local_config' = Put(local_config, "model", c.model)
                     /\ pc' = "setup_save"
                ELSE UNCHANGED <<local_config, pc>>
    /\ reads' = reads + 1
    /\ UNCHANGED <<fs0, raw_lines, args, fs, pathKind, config, caller, models, lines, subject,
                   printed, net, validated, listed, writes, wizardRuns, keyIters, chat>>

\* Attach the monitoring block, write the file, return the configuration
\* to load_config (which returns it to the constructor) or to
\* execute_command (the setup command without --api-key).
first_time_setup_save ==
    /\ pc = "setup_save"
    /\ LET cfg == Put(local_config, "error_monitoring", wizard_error_monitoring) IN
         /\ fs' = [kind |-> "json", obj |-> cfg]
         /\ config' = Some(cfg)
         /\ local_config' = EmptyDict
    /\ models' = <<>>
    /\ last' = Call("json.dump", None, <<>>, None, Result(Return(<<>>), <<>>))
    /\ writes' = writes + 1
    /\ pc' = IF caller = "load_config" THEN "execute_command" ELSE "exit"
    /\ UNCHANGED <<args, pathKind, caller, lines, subject, printed,
                   fs0, raw_lines, net, validated, listed, reads, wizardRuns, keyIters, chat>>

\* ---------------------------------------------------------- execute_command

\* The call of analyze_error and the print of what it returns.
AnalyzeAndPrint(error_text) ==
    \E resp \in ChatResps :
        LET r == analyze_error(config.val, error_text, resp) IN
            /\ subject' = Some(error_text)
            /\ net' = net \o Endpoints(r.sent)
            /\ chat' = Append(chat, [op |-> "analyze_error", arg |-> error_text,
                                     cfg |-> config.val, resp |-> resp,
                                     out |-> r.out, sent |-> r.sent])
            /\ IF r.out.kind = "return"
               THEN printed' = Append(printed, r.out.val) /\ pc' = "exit"
               ELSE printed' = printed /\ pc' = "crashed"

\* The call of install_tool and the print of what it returns.
InstallAndPrint(tool_name) ==
    \E resp \in ChatResps :
        LET r == install_tool(config.val, tool_name, resp) IN
            /\ subject' = Some(tool_name)
            /\ net' = net \o Endpoints(r.sent)
            /\ chat' = Append(chat, [op |-> "install_tool", arg |-> tool_name,
                                     cfg |-> config.val, resp |-> resp,
                                     out |-> r.out, sent |-> r.sent])
            /\ IF r.out.kind = "return"
               THEN printed' = Append(printed, r.out.val) /\ pc' = "exit"
               ELSE printed' = printed /\ pc' = "crashed"

\* analyze with the text from --file: open() raises on a directory.
execute_analyze_file ==
    /\ pc = "execute_command" /\ args.command = "analyze"
    /\ analyze_source(args, pathKind) = "file"
    /\ IF pathKind = "regular"
       THEN AnalyzeAndPrint(FileContent)
       ELSE pc' = "crashed" /\ UNCHANGED <<subject, net, chat, printed>>
    /\ UNCHANGED <<args, fs, pathKind, config, caller, local_config, models, lines,
                   last, fs0, raw_lines, validated, listed, reads, writes, wizardRuns, keyIters>>

\* analyze with the text from --text.
execute_analyze_text ==
    /\ pc = "execute_command" /\ args.command = "analyze"
    /\ analyze_source(args, pathKind) = "text"
    /\ AnalyzeAndPrint(args.text.val)
    /\ UNCHANGED <<args, fs, pathKind, config, caller, local_config, models, lines,
                   last, fs0, raw_lines, validated, listed, reads, writes, wizardRuns, keyIters>>

\* analyze without a usable --file or --text: start reading lines.
execute_analyze_stdin ==
    /\ pc = "execute_command" /\ args.command = "analyze"
    /\ analyze_source(args, pathKind) = "stdin"
    /\ lines' = <<>>
    /\ pc' = "analyze_input"
    /\ UNCHANGED <<args, fs, pathKind, config, caller, local_config, models, subject,
                   printed, last, fs0, raw_lines, net, validated, listed, reads, writes,
                   wizardRuns, keyIters, chat>>

\* One pass of the input loop: a stripped line equal to DONE ends it and
\* the joined lines are analyzed; any other line is kept.
analyze_readline ==
    /\ pc = "analyze_input"
    /\ reads < MaxReads
    /\ \E raw \in TextLines :
         LET line == strip(raw) IN
             /\ last' = Call("readline", Some(raw), line, None, Result(Return(line), <<>>))
             /\ raw_lines' = Append(raw_lines, raw)
             /\ IF line = <<"DONE">>
                THEN AnalyzeAndPrint(join(lines)) /\ lines' = lines
                ELSE /\ lines' = Append(lines, line)
                     /\ UNCHANGED <<pc, subject, net, chat, printed>>
    /\ reads' = reads + 1
    /\ UNCHANGED <<fs0, args, fs, pathKind, config, caller, local_config, models,
                   validated, listed, writes, wizardRuns, keyIters>>

\* install --tool NAME
execute_install_arg ==
    /\ pc = "execute_command" /\ args.command = "install"
    /\ Truthy(args.tool)
    /\ InstallAndPrint(args.tool.val)
    /\ UNCHANGED <<args, fs, pathKind, config, caller, local_config, models, lines,
                   last, fs0, raw_lines, validated, listed, reads, writes, wizardRuns, keyIters>>

\* install without a tool name: read one line.
execute_install_prompt ==
    /\ pc = "execute_command" /\ args.command = "install"
    /\ ~Truthy(args.tool)
    /\ reads < MaxReads
    /\ \E raw \in ToolLines :
         /\ last' = Call("readline", Some(raw), strip(raw), None, Result(Return(strip(raw)), <<>>))
         /\ InstallAndPrint(strip(raw))
    /\ reads' = reads + 1
    /\ UNCHANGED <<fs0, raw_lines, args, fs, pathKind, config, caller, local_config, models, lines,
                   validated, listed, writes, wizardRuns, keyIters>>

\* monitor
execute_monitor ==
    /\ pc = "execute_command" /\ args.command = "monitor"
    /\ printed' = printed \o start_monitoring(config.val)
    /\ pc' = "exit"
    /\ UNCHANGED <<args, fs, pathKind, config, caller, local_config, models, lines,
                   subject, last, fs0, raw_lines, net, validated, listed, reads, writes,
                   wizardRuns, keyIters, chat>>

\* setup --api-key KEY [--model ID]: take the key, and the model if given.
execute_setup_args ==
    /\ pc = "execute_command" /\ args.command = "setup"
    /\ Truthy(args.api_key)
    /\ LET cfg == Put(EmptyDict, "api_key", args.api_key.val) IN
         IF Truthy(args.model)
         THEN local_config' = Put(cfg, "model", args.model.val) /\ pc' = "cmd_save"
         ELSE local_config' = cfg /\ pc' = "cmd_models"
    /\ UNCHANGED <<args, fs, pathKind, config, caller, models, lines, subject,
                   printed, last, fs0, raw_lines, net, validated, listed, reads, writes,
                   wizardRuns, keyIters, chat>>

\* setup --api-key KEY: fetch and print the model list.
execute_setup_models ==
    /\ pc = "cmd_models"
    /\ \E resp \in ModelsResps :
         LET r == get_available_models(local_config.api_key, resp) IN
             /\ last' = Call("get_available_models", None, local_config.api_key, Some(resp), r)
             /\ net' = net \o Endpoints(r.sent)
             /\ listed' = listed \cup {[key |-> local_config.api_key, by |-> "execute_command"]}
             /\ IF r.out.kind = "return"
                THEN models' = r.out.val /\ pc' = "cmd_choice"
                ELSE models' = models /\ pc' = "crashed"
    /\ UNCHANGED <<args, fs, pathKind, config, caller, local_config, lines, subject,
                   printed, fs0, raw_lines, validated, reads, writes, wizardRuns,
                   keyIters, chat>>

\* setup --api-key KEY: one pass of the model-selection loop.
execute_setup_choice ==
    /\ pc = "cmd_choice"
    /\ reads < MaxReads
    /\ \E line \in ChoiceLines :
         LET c == command_choice(strip(line), models) IN
             /\ last' = Call("choice", Some(line), strip(line), None, Result(c, <<>>))
             /\ IF c.kind = "break"
                THEN /\ local_config' = Put(local_config, "model", c.model)
                     /\ pc' = "cmd_save"
                ELSE UNCHANGED <<local_config, pc>>
    /\ reads' = reads + 1
    /\ UNCHANGED <<fs0, raw_lines, args, fs, pathKind, config, caller, models, lines, subject,
                   printed, net, validated, listed, writes, wizardRuns, keyIters, chat>>

\* setup --api-key KEY: attach the monitoring block, write the file, keep
\* the configuration.
execute_setup_save ==
    /\ pc = "cmd_save"
    /\ LET cfg == Put(local_config, "error_monitoring", command_error_monitoring) IN
         /\ fs' = [kind |-> "json", obj |-> cfg]
         /\ config' = Some(cfg)
         /\ local_config' = EmptyDict
    /\ models' = <<>>
    /\ last' = Call("json.dump", None, <<>>, None, Result(Return(<<>>), <<>>))
    /\ writes' = writes + 1
    /\ pc' = "exit"
    /\ UNCHANGED <<args, pathKind, caller, lines, subject, printed,
                   fs0, raw_lines, net, validated, listed, reads, wizardRuns, keyIters, chat>>

\* setup without a usable --api-key: run first_time_setup.
execute_setup_wizard ==
    /\ pc = "execute_command" /\ args.command = "setup"
    /\ ~Truthy(args.api_key)
    /\ caller' = "execute_command"
    /\ wizardRuns' = wizardRuns + 1
    /\ local_config' = EmptyDict
    /\ pc' = "setup_key"
    /\ UNCHANGED <<args, fs, pathKind, config, models, lines, subject, printed,
                   last, fs0, raw_lines, net, validated, listed, reads, writes, keyIters, chat>>

Next ==
    \/ main
    \/ load_config
    \/ first_time_setup_key
    \/ first_time_setup_models
    \/ first_time_setup_choice
    \/ first_time_setup_save
    \/ execute_analyze_file
    \/ execute_analyze_text
    \/ execute_analyze_stdin
    \/ analyze_readline
    \/ execute_install_arg
    \/ execute_install_prompt
    \/ execute_monitor
    \/ execute_setup_args
    \/ execute_setup_models
    \/ execute_setup_choice
    \/ execute_setup_save
    \/ execute_setup_wizard

Spec == Init /\ [][Next]_vars

\* ================================================================ properties

\* The text s holds the chunk.
Contains(s, chunk) == \E i \in 1..Len(s) : s[i] = chunk

Populated(cfg) ==
    /\ "api_key" \in DOMAIN cfg /\ cfg.api_key # <<>>
    /\ "model" \in DOMAIN cfg /\ cfg.model # <<>>

\* C1: analyze_error and install_tool build a chat request only from a
\* configuration that holds a non-empty api_key and a non-empty model,
\* whether it was read from the file, made by the wizard or made by the
\* setup command.
C1_ConfigPopulatedBeforeUse ==
    \A i \in 1..Len(chat) : chat[i].sent # <<>> => Populated(chat[i].cfg)

\* C2: load_config runs first_time_setup if and only if the file is missing
\* or does not parse.  With a file that parses it returns the parsed object
\* and reads no input, makes no network call and writes nothing; otherwise
\* the wizard has run to completion and load_config returns what it saved.
C2_LoadConfig ==
    /\ pc = "execute_command" =>
         IF fs0.kind = "json"
         THEN /\ config = Some(fs0.obj)
              /\ wizardRuns = 0 /\ keyIters = 0 /\ reads = 0
              /\ net = <<>> /\ writes = 0 /\ fs = fs0
         ELSE /\ wizardRuns = 1 /\ writes = 1 /\ caller = "load_config"
              /\ fs.kind = "json" /\ config = Some(fs.obj)
              /\ DOMAIN config.val = {"api_key", "model", "error_monitoring"}
              /\ config.val.api_key \in validated
    /\ pc \notin {"main", "load_config"} /\ args.command # "none" =>
         (fs0.kind # "json" <=> (wizardRuns >= 1 /\ (wizardRuns = 1 => caller = "load_config")))
    /\ config = None /\ pc \notin {"main", "load_config", "exit"} =>
         pc \in {"setup_key", "setup_models", "setup_choice", "setup_save", "crashed"}
            /\ caller = "load_config" /\ fs0.kind # "json"

\* C2 witness: load_config has returned the configuration the wizard saved.
C2_Witness ==
    /\ pc = "execute_command" /\ fs0.kind = "corrupt"
    /\ caller = "load_config" /\ writes = 1 /\ config = Some(fs.obj)

\* C3: analyze_error and install_tool always return a string.  After a
\* non-200 answer it begins with "Error:" and contains the status code;
\* after an exception of the request it begins with "Error:" and contains
\* the exception's text; after a 200 with a well-formed body it is the
\* first choice's content; after a 200 without that content, or with a
\* configuration lacking api_key or model, it is an "Error:" string.
C3_ChatNeverRaises ==
    \A i \in 1..Len(chat) :
        LET c == chat[i] IN
        /\ c.out.kind = "return"
        /\ IF c.sent = <<>>
           THEN /\ ~({"api_key", "model"} \subseteq DOMAIN c.cfg)
                /\ Head(c.out.val) = "Error:"
           ELSE /\ {"api_key", "model"} \subseteq DOMAIN c.cfg
                /\ Len(c.sent) = 1
                /\ c.resp.kind = "exc" =>
                     /\ Head(c.out.val) = "Error:"
                     /\ \A j \in 1..Len(c.resp.text) : Contains(c.out.val, c.resp.text[j])
                /\ c.resp.kind = "http" /\ c.resp.status # 200 =>
                     /\ Head(c.out.val) = "Error:"
                     /\ Contains(c.out.val, ToString(c.resp.status))
                /\ \A body \in Contents :
                     c.resp = Http(200, Json(WellFormed(body))) => c.out.val = body
                /\ (c.resp = Http(200, NotJson)
                        \/ \E d \in LackingDocs : c.resp = Http(200, Json(d))) =>
                     Head(c.out.val) = "Error:"

\* C3 witness: a chat request failed with an exception and the operation
\* returned.
C3_Witness ==
    \E i \in 1..Len(chat) :
        chat[i].sent # <<>> /\ chat[i].resp.kind = "exc" /\ chat[i].out.kind = "return"

\* The non-empty ids of a models response, in the order of its data array.
ResponseIds(resp) ==
    IF resp.kind = "http" /\ resp.status = 200 /\ resp.body.json
          /\ "data" \in DOMAIN resp.body.doc
    THEN LET NonEmpty(e) == "id" \in DOMAIN e /\ e.id # <<>>
             data == resp.body.doc.data
             ids == SelectSeq(data, NonEmpty)
         IN  [i \in 1..Len(ids) |-> ids[i].id]
    ELSE <<>>

\* C4: get_available_models returns, never raises, and never returns an
\* empty list: the eleven-entry fallback when the GET raises, answers a
\* non-200 status or yields no non-empty id, else the non-empty ids of the
\* data array in the server's order.  The three fallback lists are equal.
C4_ModelsOrFallback ==
    /\ FALLBACK_EMPTY = FALLBACK_STATUS /\ FALLBACK_STATUS = FALLBACK_EXCEPTION
    /\ Len(FALLBACK_EMPTY) = 11
    /\ last.op = "get_available_models" =>
         /\ last.out.kind = "return"
         /\ last.out.val # <<>>
         /\ last.sent = 1
         /\ pc \in {"setup_choice", "cmd_choice"} /\ models = last.out.val
         /\ IF ResponseIds(last.resp.val) = <<>>
            THEN last.out.val = FALLBACK_EMPTY
            ELSE last.out.val = ResponseIds(last.resp.val)

\* C4 witness: a listing that returned two ids of the server, in its order.
C4_Witness ==
    /\ last.op = "get_available_models"
    /\ last.resp = Some(Http(200, Json([data |-> <<[id |-> <<"m2">>], [id |-> <<"m1">>]>>])))
    /\ models = << <<"m2">>, <<"m1">> >>

\* C5: validate_openrouter_api_key returns, never raises; it returns true
\* only when the GET answered 200, false when the GET raised or answered
\* another status, and false without a network call for an empty key.
C5_ValidateOnly200 ==
    last.op = "validate_openrouter_api_key" =>
        /\ last.out.kind = "return"
        /\ last.out.val \in BOOLEAN
        /\ last.arg = <<>> => last.sent = 0 /\ last.out.val = FALSE
        /\ last.arg # <<>> => last.sent = 1
        /\ last.out.val <=>
             (last.sent = 1 /\ last.resp.val.kind = "http" /\ last.resp.val.status = 200)

\* C5 witness: the validator was called and the request raised.
C5_Witness ==
    /\ last.op = "validate_openrouter_api_key"
    /\ last.sent = 1 /\ last.resp.val.kind = "exc" /\ last.out = Return(FALSE)

\* C6: setup --api-key never calls the key validator nor enters the key
\* loop, whatever the config file held; with --model as well it reads no
\* standard input and persists exactly the supplied key and model.
C6_SetupArgsSkipKeyLoop ==
    args.command = "setup" /\ Truthy(args.api_key) =>
        /\ keyIters = 0 /\ wizardRuns = 0 /\ pc # "setup_key"
        /\ "auth/key" \notin {net[i] : i \in 1..Len(net)}
        /\ Truthy(args.model) =>
             /\ reads = 0
             /\ pc = "exit" =>
                  /\ fs.kind = "json"
                  /\ fs.obj.api_key = args.api_key.val
                  /\ fs.obj.model = args.model.val

\* An input made of digit characters only; its value when int() gives one.
PurelyNumeric(input) ==
    input # <<>> /\ \A i \in 1..Len(input) : input[i] \in AsciiDigits \cup OtherDigits
HasValue(input) == \A i \in 1..Len(input) : input[i] \in AsciiDigits

C8_AtMostOneCall ==
    args.command \in {"analyze", "install", "monitor"} => Len(net) <= 1

\* C8 amended: when the config file exists and parses, analyze and install
\* perform at most one network call, the chat request, and monitor none;
\* when it is missing or corrupt the wizard's calls come first.
C8_AtMostOneCallWithConfig ==
    /\ args.command \in {"analyze", "install", "monitor"} /\ fs0.kind = "json" =>
         /\ Len(net) <= 1
         /\ \A i \in 1..Len(net) : net[i] = "chat/completions"
         /\ Len(net) = Len(chat) \/ (Len(net) = 0 /\ \A i \in 1..Len(chat) : chat[i].sent = <<>>)
         /\ args.command = "monitor" => net = <<>>
    /\ args.command \in {"analyze", "install", "monitor"} /\ pc = "exit"
          /\ fs0.kind # "json" /\ Len(chat) = 1 /\ chat[1].sent # <<>> =>
         Len(net) >= 3

\* C8 witness: analyze with a stored configuration ended after one call.
C8_Witness ==
    /\ args.command = "analyze" /\ fs0.kind = "json" /\ pc = "exit"
    /\ net = <<"chat/completions">>

\* A line without its final newline.
Chomp(raw) ==
    IF raw # <<>> /\ raw[Len(raw)] = "\n" THEN SubSeq(raw, 1, Len(raw) - 1) ELSE raw

\* C9 as stated: the text is the content of --file when it names an
\* existing file, else --text when given, else the lines read before the
\* first line that is exactly DONE, joined by newlines; exactly one
\* analyze_error call is made with it and its result is printed.  (Stated
\* for a --file that is not a directory and a --text that is not empty.)
C9_SourcePriority ==
    /\ args.command = "analyze" /\ pc \in {"exit", "crashed"}
    /\ pathKind # "dir" /\ (args.text.given => args.text.val # <<>>)
    =>
        /\ Len(chat) = 1
        /\ chat[1].op = "analyze_error"
        /\ chat[1].out.kind = "return" /\ printed = <<chat[1].out.val>>
        /\ IF Truthy(args.file) /\ pathKind = "regular"
           THEN chat[1].arg = FileContent
           ELSE IF args.text.given
           THEN chat[1].arg = args.text.val
           ELSE LET n == Len(raw_lines) IN
                /\ n >= 1
                /\ Chomp(raw_lines[n]) = <<"DONE">>
                /\ \A i \in 1..(n - 1) : Chomp(raw_lines[i]) # <<"DONE">>
                /\ chat[1].arg = join([i \in 1..(n - 1) |-> Chomp(raw_lines[i])])

\* C9 amended: the text is the content of --file when it is non-empty and
\* names an existing regular file (a path that exists but cannot be read
\* as a file ends the run with no call); else --text when it is given and
\* non-empty; else the lines read, each stripped of surrounding white
\* space, before the first whose stripped form is DONE, joined by
\* newlines.  Once the text is obtained exactly one analyze_error call is
\* made with it and its result is printed.
C9_SourcePriorityStripped ==
    args.command = "analyze" =>
        /\ pc \notin {"exit", "crashed"} => chat = <<>>
        /\ pc = "crashed" =>
             Truthy(args.file) /\ pathKind = "dir" /\ chat = <<>>
        /\ pc = "exit" =>
             /\ Len(chat) = 1
             /\ chat[1].op = "analyze_error"
             /\ chat[1].out.kind = "return" /\ printed = <<chat[1].out.val>>
             /\ IF Truthy(args.file) /\ pathKind # "absent"
                THEN pathKind = "regular" /\ chat[1].arg = FileContent /\ raw_lines = <<>>
                ELSE IF Truthy(args.text)
                THEN chat[1].arg = args.text.val /\ raw_lines = <<>>
                ELSE LET n == Len(raw_lines) IN
                     /\ n >= 1
                     /\ strip(raw_lines[n]) = <<"DONE">>
                     /\ \A i \in 1..(n - 1) : strip(raw_lines[i]) # <<"DONE">>
                     /\ chat[1].arg = join([i \in 1..(n - 1) |-> strip(raw_lines[i])])

\* C9 witness: two lines were read, the first with leading white space,
\* the second DONE with surrounding white space, and the text was analyzed.
C9_Witness ==
    /\ args.command = "analyze" /\ pc = "exit"
    /\ raw_lines = << <<" ", "at line 5", "\n">>, <<" ", "DONE", " ", "\n">> >>
    /\ Len(chat) = 1 /\ chat[1].arg = <<"at line 5">>

\* C10 as stated: every get_available_models call is preceded, in the same
\* run, by a validation that returned true for the key passed to it.
C10_ListingAfterValidation ==
    \A l \in listed : l.key \in validated

\* C10 amended: every get_available_models call made by first_time_setup
\* is preceded, in the same run, by a validation that returned true for
\* the key passed to it; the setup command with --api-key and no --model
\* lists the models with the supplied key, which it does not validate.
C10_WizardListingAfterValidation ==
    /\ \A l \in listed : l.by = "first_time_setup" => l.key \in validated
    /\ pc = "setup_models" => local_config.api_key \in validated
    /\ \A l \in listed : l.by = "execute_command" =>
          Truthy(args.api_key) /\ l.key = args.api_key.val /\ ~Truthy(args.model)

\* C10 witness: the wizard listed the models with a key it had validated.
C10_Witness ==
    \E l \in listed : l.by = "first_time_setup" /\ l.key \in validated /\ l.key # <<>>

====
